---- MODULE Spec2Model ----
(***************************************************************************)
(* Model of the mixed-notation text segmenter, render_text_with_latex in   *)
(* src/app.py: Normalizer, MatchScanner, OverlapResolver, Segmenter,       *)
(* Merger, Sanitizer and Emitter.                                          *)
(*                                                                         *)
(* A text is a sequence of one-character strings.  Offsets are Python's:   *)
(* 0-based, a span is the half-open interval [start, end).                 *)
(***************************************************************************)
EXTENDS Integers, Sequences, FiniteSets, TLC

VARIABLES
    input,            \* the argument of render_text_with_latex
    text,             \* the local text (the normalized text after line 34)
    pc,               \* position in the function body
    all_matches,      \* candidate spans (lines 37-76)
    filtered_matches, \* accepted spans (lines 79-87)
    result_parts,     \* segments (lines 133-159)
    text_blocks,      \* first merge pass (lines 163-186)
    merged_blocks,    \* second merge pass (lines 189-211)
    idx,              \* index of the block the render loop is at (line 214)
    attempt,          \* st.latex attempts already rejected for that block
    calls,            \* the calls made into the rendering surface, in order
    raised            \* an exception left render_text_with_latex

vars == <<input, text, pc, all_matches, filtered_matches, result_parts,
          text_blocks, merged_blocks, idx, attempt, calls, raised>>

\* The OCR batch script, src/utils/OCR_Batch.py
VARIABLES
    pictures_dir,     \* the folder Pictures exists
    pictures,         \* the numbers i whose image page_i.png is in Pictures
    output_exists,    \* math_ocr_results.txt exists
    output_file,      \* the pages whose OCR result math_ocr_results.txt holds
    backups,          \* the contents of the backup_..._math_ocr_results.txt files
    record_file,      \* the lines of processed_images.txt (page numbers)
    processed_images, \* the set loaded at line 123
    failed_images,    \* the list of line 124
    page,             \* the loop variable i of line 129
    bpc,              \* "idle" between two runs, "loop" inside the loop
    runs              \* the runs of the script started so far

batch_vars == <<pictures_dir, pictures, output_exists, output_file, backups,
                record_file, processed_images, failed_images, page, bpc, runs>>

\* TextSplitter.split_text, src/models/embedding.py
VARIABLES
    file_content,     \* the argument text of split_text
    max_chunk_size,   \* self.max_chunk_size
    chunks,           \* the stripped, non-empty pieces of line 128
    processed_chunks, \* the list of line 131
    chunk_idx,        \* index of the chunk the loop of line 132 is at
    spc               \* position in split_text

split_vars == <<file_content, max_chunk_size, chunks, processed_chunks, chunk_idx, spc>>

\* DoubaoEmbeddings.embed_documents and the pairing of process_single_file,
\* src/models/embedding.py
VARIABLES
    texts,            \* the argument of embed_documents (the chunks of line 312)
    batch_size,       \* self.batch_size
    all_embeddings,   \* the list of line 47
    batch_start,      \* the loop variable i of line 50
    embeddings,       \* the list process_single_file receives (line 312)
    valid_data,       \* the list of line 315
    epc               \* position in process_single_file

embed_vars == <<texts, batch_size, all_embeddings, batch_start, embeddings,
                valid_data, epc>>

\* What render_text_with_latex does not touch.
other_vars == <<batch_vars, split_vars, embed_vars>>

(***************************************************************************)
(* Characters and Python string helpers                                    *)
(***************************************************************************)
BS == "\\"

\* The backquote character, which the lexer does not accept in a string.
Backquote == "backquote"

\* The whitespace characters of the model's alphabet (matched by \s and
\* removed by str.strip()).
Whitespace == {" ", "\n", "\t"}

\* s[p] for a 0-based offset p; "" when p is outside the string.
At(s, p) == IF p >= 0 /\ p < Len(s) THEN s[p + 1] ELSE ""

\* s[a:b]
Slice(s, a, b) == SubSeq(s, a + 1, b)

\* s.startswith(lit, p)
HasAt(s, p, lit) == \A k \in 1..Len(lit) : At(s, p + k - 1) = lit[k]

RECURSIVE LStrip(_)
LStrip(s) ==
    IF s # <<>> /\ s[1] \in Whitespace THEN LStrip(Tail(s)) ELSE s

RECURSIVE RStrip(_)
RStrip(s) ==
    IF s # <<>> /\ s[Len(s)] \in Whitespace
    THEN RStrip(SubSeq(s, 1, Len(s) - 1)) ELSE s

\* str.strip()
Strip(s) == RStrip(LStrip(s))

RECURSIVE Concat(_)
Concat(ss) == IF ss = <<>> THEN <<>> ELSE Head(ss) \o Concat(Tail(ss))

(***************************************************************************)
(* ContentClassifier: has_real_content (lines 90-95)                       *)
(***************************************************************************)
NotWhitespace(c) == c \notin Whitespace

\* re.sub(r'\s+', '', s)
RemoveWhitespace(s) == SelectSeq(s, NotWhitespace)

has_real_content(s) ==
    IF s = <<>> THEN FALSE ELSE Len(RemoveWhitespace(s)) > 0

(***************************************************************************)
(* Normalizer (lines 28-34)                                                *)
(***************************************************************************)
\* text.split('\n')
RECURSIVE SplitLines(_, _)
SplitLines(s, cur) ==
    IF s = <<>> THEN <<cur>>
    ELSE IF Head(s) = "\n" THEN <<cur>> \o SplitLines(Tail(s), <<>>)
    ELSE SplitLines(Tail(s), Append(cur, Head(s)))

\* '\n'.join(lines)
RECURSIVE JoinLines(_)
JoinLines(lines) ==
    IF Len(lines) = 0 THEN <<>>
    ELSE IF Len(lines) = 1 THEN lines[1]
    ELSE lines[1] \o <<"\n">> \o JoinLines(Tail(lines))

\* The offset after the run of backslashes that starts at p (p itself when
\* there is none).
RECURSIVE BackslashRunEnd(_, _)
BackslashRunEnd(s, p) ==
    IF At(s, p) = BS THEN BackslashRunEnd(s, p + 1) ELSE p

\* The end of the match of  \\(\\+)([\[\(])  at offset p, or -1.
EscapeMatchEnd(s, p) ==
    IF At(s, p) # BS THEN -1
    ELSE LET q == BackslashRunEnd(s, p + 1)
         IN  IF q > p + 1 /\ At(s, q) \in {"[", "("} THEN q + 1 ELSE -1

\* A normalizer that leaves one backslash of the run, whatever its length.
RECURSIVE NormalizeFrom_OneBackslashLeft(_, _)
NormalizeFrom_OneBackslashLeft(line, p) ==
    IF p >= Len(line) THEN <<>>
    ELSE LET e == EscapeMatchEnd(line, p)
         IN  IF e >= 0
             THEN <<BS, At(line, e - 1)>> \o NormalizeFrom_OneBackslashLeft(line, e)
             ELSE <<At(line, p)>> \o NormalizeFrom_OneBackslashLeft(line, p + 1)

\* re.sub(r'\\(\\+)([\[\(])', r'\1\2', line): the match without its first
\* backslash.
RECURSIVE NormalizeFrom(_, _)
NormalizeFrom(line, p) ==
    IF p >= Len(line) THEN <<>>
    ELSE LET e == EscapeMatchEnd(line, p)
         IN  IF e >= 0
             THEN Slice(line, p + 1, e) \o NormalizeFrom(line, e)
             ELSE <<At(line, p)>> \o NormalizeFrom(line, p + 1)

NormalizeLine(line) == NormalizeFrom(line, 0)

Normalize(s) ==
    LET lines == SplitLines(s, <<>>)
    IN  JoinLines([k \in 1..Len(lines) |-> NormalizeLine(lines[k])])

(***************************************************************************)
(* MatchScanner (lines 37-73).  The four patterns share one shape: an      *)
(* opening delimiter, a reluctant run of one or more content characters,   *)
(* each guarded by a negative lookahead, and a closing delimiter.          *)
(*   1  \$\$((?:(?!\$\$).|\n)+?)\$\$                    re.DOTALL          *)
(*   2  \\\[((?:(?!\\\]).|\n)+?)\\\]                    re.DOTALL          *)
(*   3  (?<!\$)\$(?![$])((?:(?!\$[^$]|$$).)+?)\$(?!\$)                     *)
(*   4  \\\(((?:(?!\\\)).)+?)\\\)                                          *)
(***************************************************************************)
Families == 1..4

\* Length of the opening (and of the closing) delimiter of a family.
DelimLen(f) == IF f = 3 THEN 1 ELSE 2

\* The kind the scanner gives the spans of a family.
KindOf(f) == IF f \in {1, 2} THEN "block" ELSE "inline"

\* The opening delimiter of family f matches at offset p.
Opens(f, s, p) ==
    CASE f = 1 -> HasAt(s, p, <<"$", "$">>)
      [] f = 2 -> HasAt(s, p, <<BS, "[">>)
      [] f = 3 -> /\ At(s, p) = "$"
                  /\ At(s, p - 1) # "$"          \* (?<!\$)
                  /\ At(s, p + 1) # "$"          \* (?![$])
      [] f = 4 -> HasAt(s, p, <<BS, "(">>)

\* One content character of family f matches at offset p.
ContentOk(f, s, p) ==
    /\ p < Len(s)
    /\ CASE f = 1 -> ~HasAt(s, p, <<"$", "$">>)
         [] f = 2 -> ~HasAt(s, p, <<BS, "]">>)
         [] f = 3 -> \* (?!\$[^$]|$$). : no "$" followed by another character
                     \* that is not "$"; the anchors $$ match only at the end
                     \* of the text or before its final newline, where "."
                     \* matches nothing either; "." matches no newline.
                     /\ ~(At(s, p) = "$" /\ p + 1 < Len(s) /\ At(s, p + 1) # "$")
                     /\ At(s, p) # "\n"
         [] f = 4 -> /\ ~HasAt(s, p, <<BS, ")">>)
                     /\ At(s, p) # "\n"

\* A scanner whose bracket families take either closing bracket.
Closes_EitherBracket(f, s, p) ==
    CASE f = 1 -> HasAt(s, p, <<"$", "$">>)
      [] f = 3 -> At(s, p) = "$" /\ At(s, p + 1) # "$"
      [] OTHER -> HasAt(s, p, <<BS, "]">>) \/ HasAt(s, p, <<BS, ")">>)

\* The closing delimiter of family f matches at offset p.
Closes(f, s, p) ==
    CASE f = 1 -> HasAt(s, p, <<"$", "$">>)
      [] f = 2 -> HasAt(s, p, <<BS, "]">>)
      [] f = 3 -> At(s, p) = "$" /\ At(s, p + 1) # "$"      \* \$(?!\$)
      [] f = 4 -> HasAt(s, p, <<BS, ")">>)

\* The reluctant +? : with the content ending at q (not empty), close at q if
\* the closing delimiter is there, else take one more content character.
\* The end offset of the match, or -1.
RECURSIVE ExtendContent(_, _, _)
ExtendContent(f, s, q) ==
    IF Closes(f, s, q) THEN q + DelimLen(f)
    ELSE IF ContentOk(f, s, q) THEN ExtendContent(f, s, q + 1)
    ELSE -1

\* The end offset of the match of family f's pattern that starts at p, or -1.
MatchEndAt(f, s, p) ==
    IF Opens(f, s, p) /\ ContentOk(f, s, p + DelimLen(f))
    THEN ExtendContent(f, s, p + DelimLen(f) + 1)
    ELSE -1

\* re.finditer: the leftmost matches, none overlapping the one before it, as
\* pairs <<match.start(), match.end()>>.
RECURSIVE FindIter(_, _, _)
FindIter(f, s, p) ==
    IF p >= Len(s) THEN <<>>
    ELSE LET e == MatchEndAt(f, s, p)
         IN  IF e >= 0 THEN <<<<p, e>>>> \o FindIter(f, s, e)
             ELSE FindIter(f, s, p + 1)

\* match.group(1)
Group1(f, s, m) == Slice(s, m[1] + DelimLen(f), m[2] - DelimLen(f))

\* any(m_start <= start < m_end for ... in all_matches)
IsInside(start, matches) ==
    \E k \in 1..Len(matches) :
        matches[k].start <= start /\ start < matches[k].end

\* A scanner without the tests `if formula:` of lines 42, 52, 62 and 72.
Collects_EmptyFormula(f, start, formula, matches) ==
    CASE f = 1 -> TRUE
      [] f = 2 -> ~IsInside(start, matches)
      [] f = 3 -> /\ ~IsInside(start, matches)
                  /\ \A k \in 1..Len(formula) : formula[k] # "$"
      [] f = 4 -> ~IsInside(start, matches)

\* A scanner without the test `'$' not in formula` of line 62.
Collects_DollarInFormula(f, start, formula, matches) ==
    CASE f = 1 -> formula # <<>>
      [] OTHER -> ~IsInside(start, matches) /\ formula # <<>>

\* The test a match of family f passes to be collected, after formula
\* (group 1, stripped) is computed.
Collects(f, start, formula, matches) ==
    CASE f = 1 -> formula # <<>>
      [] f = 2 -> ~IsInside(start, matches) /\ formula # <<>>
      [] f = 3 -> /\ ~IsInside(start, matches)
                  /\ formula # <<>>
                  /\ \A k \in 1..Len(formula) : formula[k] # "$"
      [] f = 4 -> ~IsInside(start, matches) /\ formula # <<>>

\* One for match in re.finditer(...) loop: ms are the matches still to
\* visit, acc is all_matches.
RECURSIVE CollectFamily(_, _, _, _)
CollectFamily(f, s, ms, acc) ==
    IF ms = <<>> THEN acc
    ELSE LET m       == Head(ms)
             formula == Strip(Group1(f, s, m))
             span    == [start |-> m[1], end |-> m[2], mtype |-> KindOf(f),
                         content |-> formula]
         IN  CollectFamily(f, s, Tail(ms),
                 IF Collects(f, m[1], formula, acc)
                 THEN Append(acc, span) ELSE acc)

ScanFamily(f, s, acc) == CollectFamily(f, s, FindIter(f, s, 0), acc)

\* A scanner that runs the loop of line 40 once more after the other three.
ScanAll_DollarsTwice(s) ==
    ScanFamily(1, s,
        ScanFamily(4, s, ScanFamily(3, s, ScanFamily(2, s, ScanFamily(1, s, <<>>)))))

\* all_matches after the four loops (lines 37-73).
ScanAll(s) ==
    ScanFamily(4, s, ScanFamily(3, s, ScanFamily(2, s, ScanFamily(1, s, <<>>))))

(***************************************************************************)
(* OverlapResolver (lines 76-87)                                           *)
(***************************************************************************)
\* Insert m after every element whose start is not greater: list.sort is
\* stable.
RECURSIVE InsertByStart(_, _)
InsertByStart(sorted, m) ==
    IF sorted = <<>> THEN <<m>>
    ELSE IF Head(sorted).start <= m.start
         THEN <<Head(sorted)>> \o InsertByStart(Tail(sorted), m)
         ELSE <<m>> \o sorted

\* A resolver that forgets the sort of line 76.
SortByStart_Unsorted(ms) == ms

\* all_matches.sort(key=lambda x: x[0])
RECURSIVE SortByStart(_)
SortByStart(ms) ==
    IF ms = <<>> THEN <<>>
    ELSE InsertByStart(SortByStart(SubSeq(ms, 1, Len(ms) - 1)), ms[Len(ms)])

\* A resolver that only looks for a candidate nested in an accepted span.
Overlaps_NestedOnly(a, b) == a.start <= b.start /\ b.end <= a.end

\* existing_start < end and start < existing_end
Overlaps(a, b) == a.start < b.end /\ b.start < a.end

RECURSIVE FilterOverlaps(_, _)
FilterOverlaps(ms, accepted) ==
    IF ms = <<>> THEN accepted
    ELSE LET m == Head(ms)
             overlaps == \E k \in 1..Len(accepted) : Overlaps(accepted[k], m)
         IN  FilterOverlaps(Tail(ms),
                 IF ~overlaps THEN Append(accepted, m) ELSE accepted)

\* A resolver that accepts the first candidate and no other.
Resolve_FirstOnly(ms) == IF ms = <<>> THEN <<>> ELSE <<ms[1]>>

Resolve(ms) == FilterOverlaps(ms, <<>>)

(***************************************************************************)
(* Sanitizer: clean_html_content (lines 98-120).  A pattern is a sequence  *)
(* of items: a literal (compared ignoring case), "gt" for [^>]*> , "sgt"   *)
(* for [^>]*/> and "ws" for \s* .  None of the nine patterns needs         *)
(* backtracking beyond what the items below do.                            *)
(***************************************************************************)
\* re.IGNORECASE on the letters of the tag names.
Lower(c) ==
    CASE c = "D" -> "d" [] c = "I" -> "i" [] c = "V" -> "v" [] c = "H" -> "h"
      [] c = "R" -> "r" [] c = "M" -> "m" [] c = "G" -> "g" [] c = "S" -> "s"
      [] c = "P" -> "p" [] c = "A" -> "a" [] c = "N" -> "n" [] c = "B" -> "b"
      [] OTHER -> c

HasAtIgnoreCase(s, p, lit) ==
    \A k \in 1..Len(lit) : Lower(At(s, p + k - 1)) = lit[k]

\* The offset of the first ">" at or after p, or -1.
RECURSIVE FirstGt(_, _)
FirstGt(s, p) ==
    IF p >= Len(s) THEN -1
    ELSE IF At(s, p) = ">" THEN p ELSE FirstGt(s, p + 1)

\* The offset after the whitespace run that starts at p.
RECURSIVE SkipWhitespace(_, _)
SkipWhitespace(s, p) ==
    IF p < Len(s) /\ At(s, p) \in Whitespace THEN SkipWhitespace(s, p + 1) ELSE p

Lit(chars) == [kind |-> "lit", chars |-> chars]
Gt  == [kind |-> "gt",  chars |-> <<>>]
SGt == [kind |-> "sgt", chars |-> <<>>]
WsStar == [kind |-> "ws",  chars |-> <<>>]

\* The end of the match of the items pat[k..] at offset p, or -1.
RECURSIVE MatchItems(_, _, _, _)
MatchItems(pat, k, s, p) ==
    IF k > Len(pat) THEN p
    ELSE LET it == pat[k] IN
         CASE it.kind = "lit" ->
                  IF HasAtIgnoreCase(s, p, it.chars)
                  THEN MatchItems(pat, k + 1, s, p + Len(it.chars)) ELSE -1
           [] it.kind = "gt" ->
                  LET g == FirstGt(s, p)
                  IN  IF g >= 0 THEN MatchItems(pat, k + 1, s, g + 1) ELSE -1
           [] it.kind = "sgt" ->
                  LET g == FirstGt(s, p)
                  IN  IF g >= 0 /\ g - 1 >= p /\ At(s, g - 1) = "/"
                      THEN MatchItems(pat, k + 1, s, g + 1) ELSE -1
           [] it.kind = "ws" ->
                  MatchItems(pat, k + 1, s, SkipWhitespace(s, p))

\* re.sub(pattern, '', content)
RECURSIVE RemoveAll(_, _, _)
RemoveAll(pat, s, p) ==
    IF p >= Len(s) THEN <<>>
    ELSE LET e == MatchItems(pat, 1, s, p)
         IN  IF e >= 0 THEN RemoveAll(pat, s, e)
             ELSE <<At(s, p)>> \o RemoveAll(pat, s, p + 1)

OpenTag(name)  == <<Lit(<<"<">> \o name), Gt>>
CloseTag(name) == <<Lit(<<"<", "/">> \o name \o <<">">>)>>
EmptyPair(name) == OpenTag(name) \o <<WsStar>> \o CloseTag(name)

DIV  == <<"d", "i", "v">>
HR   == <<"h", "r">>
IMG  == <<"i", "m", "g">>
SPAN == <<"s", "p", "a", "n">>
PTAG == <<"p">>
BR   == <<"b", "r">>

\* The patterns of lines 104-118, in the order they are applied.
CleanPatterns ==
    << EmptyPair(DIV),
       OpenTag(DIV) \o <<WsStar>> \o OpenTag(DIV) \o <<WsStar>> \o CloseTag(DIV)
           \o <<WsStar>> \o CloseTag(DIV),
       OpenTag(HR) \o <<WsStar>>,
       <<Lit(<<"<">> \o HR), SGt>>,
       OpenTag(IMG) \o <<WsStar>>,
       <<Lit(<<"<">> \o IMG), SGt>>,
       EmptyPair(SPAN),
       EmptyPair(PTAG),
       OpenTag(BR) \o <<WsStar>> >>

RECURSIVE ApplyPatterns(_, _, _)
ApplyPatterns(pats, k, s) ==
    IF k > Len(pats) THEN s
    ELSE ApplyPatterns(pats, k + 1, RemoveAll(pats[k], s, 0))

clean_html_content(content) ==
    IF content = <<>> THEN content ELSE ApplyPatterns(CleanPatterns, 1, content)

(***************************************************************************)
(* Segmenter (lines 133-159).  A part is the tuple (type, content) of the  *)
(* code; pos is a history field the code does not keep: the offset in    *)
(* the normalized text at which the part's source begins.                  *)
(***************************************************************************)
Part(type, content, pos) == [type |-> type, content |-> content, pos |-> pos]

RECURSIVE SegmentLoop(_, _, _, _)
SegmentLoop(s, ms, last_end, parts) ==
    IF ms = <<>>
    THEN LET remaining_text == Slice(s, last_end, Len(s))
         IN  IF last_end < Len(s) /\ has_real_content(remaining_text)
             THEN Append(parts, Part("text", remaining_text, last_end))
             ELSE parts
    ELSE LET m == Head(ms)
             text_before == Slice(s, last_end, m.start)
             p1 == IF m.start > last_end /\ has_real_content(text_before)
                   THEN Append(parts, Part("text", text_before, last_end))
                   ELSE parts
             p2 == IF has_real_content(m.content)
                   THEN Append(p1, Part(IF m.mtype = "block" THEN "block_latex"
                                        ELSE "inline_latex", m.content, m.start))
                   ELSE p1
         IN  SegmentLoop(s, Tail(ms), m.end, p2)

\* A segmenter without lines 155-159: the text after the last span is lost.
Segments_DropsRemainingText(s, ms) ==
    SegmentLoop(IF ms = <<>> THEN s ELSE Slice(s, 0, ms[Len(ms)].end), ms, 0, <<>>)

\* A segmenter that takes every span for a block formula.
Segments_InlineAsBlock(s, ms) ==
    SegmentLoop(s, [k \in 1..Len(ms) |-> [ms[k] EXCEPT !.mtype = "block"]],
                0, <<>>)

Segments(s, ms) == SegmentLoop(s, ms, 0, <<>>)

(***************************************************************************)
(* Merger, first pass (lines 163-186)                                      *)
(***************************************************************************)
\* cur is current_text_block, curpos the pos of the first part added to it.
RECURSIVE MergeLoop(_, _, _, _)
MergeLoop(parts, cur, curpos, blocks) ==
    IF parts = <<>>
    THEN IF has_real_content(cur)
         THEN Append(blocks, Part("text", cur, curpos)) ELSE blocks
    ELSE LET p == Head(parts)
             pos == IF cur = <<>> THEN p.pos ELSE curpos
         IN  CASE p.type = "text" ->
                      IF has_real_content(p.content)
                      THEN MergeLoop(Tail(parts), cur \o p.content, pos, blocks)
                      ELSE MergeLoop(Tail(parts), cur, curpos, blocks)
               [] p.type = "inline_latex" ->
                      IF has_real_content(p.content)
                      THEN MergeLoop(Tail(parts),
                                     cur \o <<"$">> \o p.content \o <<"$">>,
                                     pos, blocks)
                      ELSE MergeLoop(Tail(parts), cur, curpos, blocks)
               [] p.type = "block_latex" ->
                      LET flushed == has_real_content(cur)
                          b1 == IF flushed
                                THEN Append(blocks, Part("text", cur, curpos))
                                ELSE blocks
                          b2 == IF has_real_content(p.content)
                                THEN Append(b1, Part("block_latex", p.content, p.pos))
                                ELSE b1
                      IN  MergeLoop(Tail(parts), IF flushed THEN <<>> ELSE cur,
                                    curpos, b2)

\* A merger that puts each block in front of the list (insert(0, ...) for
\* append).
MergeParts_Prepends(parts) ==
    LET blocks == MergeLoop(parts, <<>>, 0, <<>>)
    IN  [k \in 1..Len(blocks) |-> blocks[Len(blocks) + 1 - k]]

\* A merger that merges nothing: every segment becomes a block of its own.
MergeParts_BlockPerPart(parts) ==
    [k \in 1..Len(parts) |->
        IF parts[k].type = "block_latex" THEN parts[k]
        ELSE Part("text",
                  IF parts[k].type = "inline_latex"
                  THEN <<"$">> \o parts[k].content \o <<"$">>
                  ELSE parts[k].content,
                  parts[k].pos)]

\* A merger that flushes its buffer after the first segment.
MergeParts_FlushesFirstPart(parts) ==
    IF parts = <<>> \/ parts[1].type = "block_latex"
    THEN MergeLoop(parts, <<>>, 0, <<>>)
    ELSE <<Part("text",
                IF parts[1].type = "inline_latex"
                THEN <<"$">> \o parts[1].content \o <<"$">>
                ELSE parts[1].content,
                parts[1].pos)>>
             \o MergeLoop(Tail(parts), <<>>, 0, <<>>)

MergeParts(parts) == MergeLoop(parts, <<>>, 0, <<>>)

(***************************************************************************)
(* Merger, second pass (lines 189-211)                                     *)
(***************************************************************************)
RECURSIVE MergeBlocksLoop(_, _, _, _)
MergeBlocksLoop(blocks, cur, curpos, merged) ==
    IF blocks = <<>>
    THEN IF has_real_content(cur)
         THEN Append(merged, Part("text", cur, curpos)) ELSE merged
    ELSE LET b == Head(blocks)
         IN  IF b.type = "text"
             THEN IF has_real_content(b.content)
                  THEN IF cur # <<>>
                       THEN MergeBlocksLoop(Tail(blocks),
                                cur \o <<"\n", "\n">> \o b.content, curpos, merged)
                       ELSE MergeBlocksLoop(Tail(blocks), b.content, b.pos, merged)
                  ELSE MergeBlocksLoop(Tail(blocks), cur, curpos, merged)
             ELSE LET flushed == has_real_content(cur)
                      m1 == IF flushed
                            THEN Append(merged, Part("text", cur, curpos))
                            ELSE merged
                      m2 == IF has_real_content(b.content)
                            THEN Append(m1, Part("block_latex", b.content, b.pos))
                            ELSE m1
                  IN  MergeBlocksLoop(Tail(blocks), IF flushed THEN <<>> ELSE cur,
                                      curpos, m2)

MergeBlocks(blocks) == MergeBlocksLoop(blocks, <<>>, 0, <<>>)

(***************************************************************************)
(* Emitter (lines 213-235) and the no-formula path (lines 123-130)         *)
(***************************************************************************)
\* str.replace('\\\\', '\\'): each pair of backslashes, left to right,
\* becomes one backslash.
RECURSIVE CollapseBackslashes(_, _)
CollapseBackslashes(s, p) ==
    IF p >= Len(s) THEN <<>>
    ELSE IF HasAt(s, p, <<BS, BS>>)
         THEN <<BS>> \o CollapseBackslashes(s, p + 2)
         ELSE <<At(s, p)>> \o CollapseBackslashes(s, p + 1)

\* A retry that collapses nothing.
CleanedFormula_NoCollapse(block_content) == Strip(block_content)

\* cleaned_formula (line 230)
CleanedFormula(block_content) == Strip(CollapseBackslashes(block_content, 0))

\* The argument of the literal fallback (line 235): cleaned_formula between
\* two backquotes.
LiteralFallback(block_content) ==
    <<Backquote>> \o CleanedFormula(block_content) \o <<Backquote>>

\* A cleanup without the strip() of lines 125 and 218.
CleanedText_Untrimmed(content) == clean_html_content(content)

\* cleaned_text / cleaned_content (lines 125-127, 218-220)
CleanedText(content) == clean_html_content(Strip(content))

\* A renderer without the tests of lines 124 and 128 (217 and 222).
RendersText_Untested(content) == TRUE

\* The conditions under which a text is handed to st.markdown (lines 124-128,
\* 217-222).
RendersText(content) ==
    /\ has_real_content(content)
    /\ CleanedText(content) # <<>>
    /\ has_real_content(CleanedText(content))

\* One call into the rendering surface: the primitive, its argument, whether
\* the surface accepted it, and the index and source offset of the block it
\* was made for (0 on the no-formula path).
Call(prim, arg, ok, blk, pos) ==
    [prim |-> prim, arg |-> arg, ok |-> ok, blk |-> blk, pos |-> pos]

\* The blocks handed to the rendering surface when it accepts every call: a
\* text block as the argument of st.markdown, a formula as that of st.latex.
RECURSIVE EmittedOf(_)
EmittedOf(blocks) ==
    IF blocks = <<>> THEN <<>>
    ELSE LET b == Head(blocks)
             out == IF b.type = "text"
                    THEN IF RendersText(b.content)
                         THEN <<[type |-> "text", content |-> CleanedText(b.content)]>>
                         ELSE <<>>
                    ELSE IF has_real_content(b.content)
                         THEN <<[type |-> "block_latex", content |-> b.content]>>
                         ELSE <<>>
         IN  out \o EmittedOf(Tail(blocks))

\* render_text_with_latex as a function of its argument, the surface accepting
\* every call.
RenderBlocks(s) ==
    IF s = <<>> THEN <<>>
    ELSE LET t  == Normalize(s)
             ms == Resolve(SortByStart(ScanAll(t)))
         IN  IF ms = <<>>
             THEN IF RendersText(t)
                  THEN <<[type |-> "text", content |-> CleanedText(t)]>>
                  ELSE <<>>
             ELSE EmittedOf(MergeBlocks(MergeParts(Segments(t, ms))))

(***************************************************************************)
(* Inputs                                                                  *)
(***************************************************************************)
MaxTokens == 4

\* The building blocks of the enumerated inputs: the delimiters, a backslash,
\* a letter and a line break.
Tokens ==
    { <<"$">>, <<BS, "(">>, <<BS, ")">>, <<BS, "[">>, <<BS, "]">>,
      <<BS>>, <<"x">>, <<"\n">> }

\* Every concatenation of at most n tokens.
RECURSIVE TokenStrings(_)
TokenStrings(n) ==
    IF n = 0 THEN {<<>>}
    ELSE LET shorter == TokenStrings(n - 1)
         IN  shorter \cup {t \o s : t \in Tokens, s \in shorter}

WhitespaceOnlyBlock == <<"$", "$", " ", " ", " ", "$", "$">>

ParenAroundDollar == <<BS, "(", " ", "$", "x", "$", " ", BS, ")">>

\* Two backslashes, "[", " a=b ", two backslashes, "]".
DoubledEscaping == <<BS, BS, "[", " ", "a", "=", "b", " ", BS, BS, "]">>

\* Prose with an inline formula, a blank line, a block formula, a blank line,
\* prose.
SolveExample ==
    <<"S", "o", "l", "v", "e", " ", "$", "x", "+", "1", "=", "2", "$", " ",
      "t", "h", "e", "n", "\n", "\n", "$", "$", BS, "i", "n", "t", "_", "0",
      "^", "1", " ", "x", BS, ",", "d", "x", " ", "=", " ", BS, "f", "r",
      "a", "c", "{", "1", "}", "{", "2", "}", "$", "$", "\n", "\n", "D", "o",
      "n", "e", ".">>

\* An empty div nested one level inside an otherwise empty div.
NestedEmptyDiv ==
    <<"<", "d", "i", "v", ">", "<", "d", "i", "v", ">",
      "<", "/", "d", "i", "v", ">", "<", "/", "d", "i", "v", ">">>

\* The examples of the specification, and longer inputs: spaces and tabs,
\* several blocks, markup.
Examples ==
    { WhitespaceOnlyBlock,
      ParenAroundDollar,
      DoubledEscaping,
      SolveExample,
      NestedEmptyDiv,
      <<"$", "a", "$", " ", "$", "x", "$", "$", "\n", BS, "(", "x", BS, ")",
        "\n", "$", "x", "\n", "y">>,
      <<BS, "(", " ", "$", "x", "$", " ", BS, ")", " ", "$", "$", "y", "$", "$">>,
      <<BS, "[", "x", BS, ")", " ", "$", "$", "y", "$", "$">>,
      <<" ", "\t", " ">>,
      <<"$", " ", "x", " ", "$">>,
      <<"x", " ", "$", "x", "$", " ", "x", "\n", "$", "$", "x", "$", "$", "x">>,
      <<"x", "$", "$", "x", "$", "$", "x", BS, "[", "x", BS, "]", "x">>,
      <<"$", "$", "x", "$", "$", BS, "[", "x", BS, "]">>,
      <<"x", "$", "$", " ", "\n", "$", "$", BS, "[", " ", "x", " ", BS, "]">>,
      <<BS, "[", "x", BS, "]", BS, "(", " ", "$", "x", "$", " ", BS, ")">>,
      <<"$", "$", BS, BS, BS, BS, "$", "$", "x">>,
      <<"<", "b", "r", ">", "$", "$", "x", "$", "$">>,
      <<"<", "b", "r", ">">>,
      <<BS, BS, "(", "x", " ", "$", "x", "$">>,
      <<"<", "D", "I", "V", ">", " ", "<", "/", "d", "i", "v", ">", "$", "x", "$">>,
      <<"x", "<", "h", "r", "/", ">", "$", "$", "x", "$", "$", "<", "p", ">",
        "<", "/", "p", ">">> }

Inputs == TokenStrings(MaxTokens) \cup Examples

(***************************************************************************)
(* The four programs share no state: while one runs, the variables of the  *)
(* others stay at the values below.                                        *)
(***************************************************************************)
PipelineIdle ==
    /\ input = <<>> /\ text = <<>> /\ pc = "idle"
    /\ all_matches = <<>> /\ filtered_matches = <<>> /\ result_parts = <<>>
    /\ text_blocks = <<>> /\ merged_blocks = <<>>
    /\ idx = 0 /\ attempt = 0 /\ calls = <<>> /\ raised = FALSE

BatchIdle ==
    /\ pictures_dir = FALSE /\ pictures = {}
    /\ output_exists = FALSE /\ output_file = <<>> /\ backups = <<>>
    /\ record_file = <<>> /\ processed_images = {} /\ failed_images = <<>>
    /\ page = 0 /\ bpc = "off" /\ runs = 0

SplitIdle ==
    /\ file_content = <<>> /\ max_chunk_size = 0
    /\ chunks = <<>> /\ processed_chunks = <<>>
    /\ chunk_idx = 0 /\ spc = "off"

EmbedIdle ==
    /\ texts = <<>> /\ batch_size = 0 /\ all_embeddings = <<>>
    /\ batch_start = 0 /\ embeddings = <<>> /\ valid_data = <<>>
    /\ epc = "off"

(***************************************************************************)
(* The state machine                                                       *)
(***************************************************************************)
Init ==
    /\ input \in Inputs
    /\ text = input
    /\ pc = "start"
    /\ all_matches = <<>>
    /\ filtered_matches = <<>>
    /\ result_parts = <<>>
    /\ text_blocks = <<>>
    /\ merged_blocks = <<>>
    /\ idx = 0
    /\ attempt = 0
    /\ calls = <<>>
    /\ raised = FALSE
    /\ BatchIdle
    /\ SplitIdle
    /\ EmbedIdle

\* Lines 23-24: if not text: return
ReturnEmpty ==
    /\ pc = "start"
    /\ text = <<>>
    /\ pc' = "done"
    /\ UNCHANGED <<input, text, all_matches, filtered_matches, result_parts,
                   text_blocks, merged_blocks, idx, attempt, calls, raised>>
    /\ UNCHANGED other_vars

\* Lines 28-34
Normalizer ==
    /\ pc = "start"
    /\ text # <<>>
    /\ text' = Normalize(text)
    /\ pc' = "scan"
    /\ UNCHANGED <<input, all_matches, filtered_matches, result_parts,
                   text_blocks, merged_blocks, idx, attempt, calls, raised>>
    /\ UNCHANGED other_vars

\* Lines 37-73
MatchScanner ==
    /\ pc = "scan"
    /\ all_matches' = ScanAll(text)
    /\ pc' = "resolve"
    /\ UNCHANGED <<input, text, filtered_matches, result_parts, text_blocks,
                   merged_blocks, idx, attempt, calls, raised>>
    /\ UNCHANGED other_vars

\* Lines 76-87 and the test of line 123.  The code then rebinds all_matches
\* to filtered_matches; the model keeps the sorted candidates in all_matches.
OverlapResolver ==
    /\ pc = "resolve"
    /\ all_matches' = SortByStart(all_matches)
    /\ filtered_matches' = Resolve(all_matches')
    /\ pc' = IF filtered_matches' = <<>> THEN "plain" ELSE "segment"
    /\ UNCHANGED <<input, text, result_parts, text_blocks, merged_blocks, idx,
                   attempt, calls, raised>>
    /\ UNCHANGED other_vars

\* Lines 123-130 when nothing is rendered
PlainSkip ==
    /\ pc = "plain"
    /\ ~RendersText(text)
    /\ pc' = "done"
    /\ UNCHANGED <<input, text, all_matches, filtered_matches, result_parts,
                   text_blocks, merged_blocks, idx, attempt, calls, raised>>
    /\ UNCHANGED other_vars

\* Line 129, st.markdown returns
PlainRender ==
    /\ pc = "plain"
    /\ RendersText(text)
    /\ calls' = Append(calls, Call("markdown", CleanedText(text), TRUE, 0, 0))
    /\ pc' = "done"
    /\ UNCHANGED <<input, text, all_matches, filtered_matches, result_parts,
                   text_blocks, merged_blocks, idx, attempt, raised>>
    /\ UNCHANGED other_vars

\* Line 129, st.markdown raises: nothing catches it
PlainRenderFails ==
    /\ pc = "plain"
    /\ RendersText(text)
    /\ calls' = Append(calls, Call("markdown", CleanedText(text), FALSE, 0, 0))
    /\ raised' = TRUE
    /\ pc' = "done"
    /\ UNCHANGED <<input, text, all_matches, filtered_matches, result_parts,
                   text_blocks, merged_blocks, idx, attempt>>
    /\ UNCHANGED other_vars

\* Lines 133-159
Segmenter ==
    /\ pc = "segment"
    /\ result_parts' = Segments(text, filtered_matches)
    /\ pc' = "merge"
    /\ UNCHANGED <<input, text, all_matches, filtered_matches, text_blocks,
                   merged_blocks, idx, attempt, calls, raised>>
    /\ UNCHANGED other_vars

\* Lines 163-186
Merger ==
    /\ pc = "merge"
    /\ text_blocks' = MergeParts(result_parts)
    /\ pc' = "merge2"
    /\ UNCHANGED <<input, text, all_matches, filtered_matches, result_parts,
                   merged_blocks, idx, attempt, calls, raised>>
    /\ UNCHANGED other_vars

\* Lines 189-211
SecondMerger ==
    /\ pc = "merge2"
    /\ merged_blocks' = MergeBlocks(text_blocks)
    /\ idx' = 1
    /\ pc' = "emit"
    /\ UNCHANGED <<input, text, all_matches, filtered_matches, result_parts,
                   text_blocks, attempt, calls, raised>>
    /\ UNCHANGED other_vars

AtBlock(type) ==
    /\ pc = "emit"
    /\ idx <= Len(merged_blocks)
    /\ merged_blocks[idx].type = type

NextBlock ==
    /\ idx' = idx + 1
    /\ attempt' = 0

\* Lines 215-222 when the tests fail, and line 226 when its test fails: the
\* loop goes on to the next block.
EmitSkip ==
    /\ pc = "emit"
    /\ idx <= Len(merged_blocks)
    /\ attempt = 0
    /\ IF merged_blocks[idx].type = "text"
       THEN ~RendersText(merged_blocks[idx].content)
       ELSE ~has_real_content(merged_blocks[idx].content)
    /\ NextBlock
    /\ UNCHANGED <<input, text, pc, all_matches, filtered_matches, result_parts,
                   text_blocks, merged_blocks, calls, raised>>
    /\ UNCHANGED other_vars

\* Line 223, st.markdown returns
EmitText ==
    /\ AtBlock("text")
    /\ RendersText(merged_blocks[idx].content)
    /\ calls' = Append(calls, Call("markdown", CleanedText(merged_blocks[idx].content),
                                   TRUE, idx, merged_blocks[idx].pos))
    /\ NextBlock
    /\ UNCHANGED <<input, text, pc, all_matches, filtered_matches, result_parts,
                   text_blocks, merged_blocks, raised>>
    /\ UNCHANGED other_vars

\* Line 223, st.markdown raises: nothing catches it
EmitTextFails ==
    /\ AtBlock("text")
    /\ RendersText(merged_blocks[idx].content)
    /\ calls' = Append(calls, Call("markdown", CleanedText(merged_blocks[idx].content),
                                   FALSE, idx, merged_blocks[idx].pos))
    /\ raised' = TRUE
    /\ pc' = "done"
    /\ UNCHANGED <<input, text, all_matches, filtered_matches, result_parts,
                   text_blocks, merged_blocks, idx, attempt>>
    /\ UNCHANGED other_vars

\* Line 228, st.latex returns
EmitMath ==
    /\ AtBlock("block_latex")
    /\ attempt = 0
    /\ has_real_content(merged_blocks[idx].content)
    /\ calls' = Append(calls, Call("latex", merged_blocks[idx].content, TRUE, idx,
                                   merged_blocks[idx].pos))
    /\ NextBlock
    /\ UNCHANGED <<input, text, pc, all_matches, filtered_matches, result_parts,
                   text_blocks, merged_blocks, raised>>
    /\ UNCHANGED other_vars

\* A try that encloses the whole loop of line 214: the first rejection ends
\* the rendering.
EmitMathRejected_EndsLoop ==
    /\ AtBlock("block_latex")
    /\ attempt = 0
    /\ has_real_content(merged_blocks[idx].content)
    /\ calls' = Append(calls, Call("latex", merged_blocks[idx].content, FALSE, idx,
                                   merged_blocks[idx].pos))
    /\ pc' = "done"
    /\ UNCHANGED <<input, text, all_matches, filtered_matches, result_parts,
                   text_blocks, merged_blocks, idx, attempt, raised>>
    /\ UNCHANGED other_vars

\* Line 228, st.latex raises: line 229 catches it
EmitMathRejected ==
    /\ AtBlock("block_latex")
    /\ attempt = 0
    /\ has_real_content(merged_blocks[idx].content)
    /\ calls' = Append(calls, Call("latex", merged_blocks[idx].content, FALSE, idx,
                                   merged_blocks[idx].pos))
    /\ attempt' = 1
    /\ UNCHANGED <<input, text, pc, all_matches, filtered_matches, result_parts,
                   text_blocks, merged_blocks, idx, raised>>
    /\ UNCHANGED other_vars

\* Lines 230-233: the retry; ok is whether st.latex returns.  When the test
\* of line 231 fails the handler ends without a call.
EmitRetry(ok) ==
    /\ AtBlock("block_latex")
    /\ attempt = 1
    /\ IF has_real_content(CleanedFormula(merged_blocks[idx].content))
       THEN /\ calls' = Append(calls, Call("latex",
                                   CleanedFormula(merged_blocks[idx].content),
                                   ok, idx, merged_blocks[idx].pos))
            /\ IF ok THEN NextBlock ELSE attempt' = 2 /\ idx' = idx
       ELSE /\ calls' = calls
            /\ NextBlock
    /\ UNCHANGED <<input, text, pc, all_matches, filtered_matches, result_parts,
                   text_blocks, merged_blocks, raised>>
    /\ UNCHANGED other_vars

EmitRetryAccepted == EmitRetry(TRUE)

EmitRetryRejected == EmitRetry(FALSE)

\* Lines 234-235: the literal fallback, st.markdown returns
EmitLiteral ==
    /\ AtBlock("block_latex")
    /\ attempt = 2
    /\ calls' = Append(calls, Call("markdown",
                                   LiteralFallback(merged_blocks[idx].content),
                                   TRUE, idx, merged_blocks[idx].pos))
    /\ NextBlock
    /\ UNCHANGED <<input, text, pc, all_matches, filtered_matches, result_parts,
                   text_blocks, merged_blocks, raised>>
    /\ UNCHANGED other_vars

\* Line 235, st.markdown raises inside the except clause: nothing catches it
EmitLiteralFails ==
    /\ AtBlock("block_latex")
    /\ attempt = 2
    /\ calls' = Append(calls, Call("markdown",
                                   LiteralFallback(merged_blocks[idx].content),
                                   FALSE, idx, merged_blocks[idx].pos))
    /\ raised' = TRUE
    /\ pc' = "done"
    /\ UNCHANGED <<input, text, all_matches, filtered_matches, result_parts,
                   text_blocks, merged_blocks, idx, attempt>>
    /\ UNCHANGED other_vars

\* The loop of line 214 is over: the function returns
EmitDone ==
    /\ pc = "emit"
    /\ idx > Len(merged_blocks)
    /\ pc' = "done"
    /\ UNCHANGED <<input, text, all_matches, filtered_matches, result_parts,
                   text_blocks, merged_blocks, idx, attempt, calls, raised>>
    /\ UNCHANGED other_vars

Next ==
    \/ ReturnEmpty
    \/ Normalizer
    \/ MatchScanner
    \/ OverlapResolver
    \/ PlainSkip
    \/ PlainRender
    \/ PlainRenderFails
    \/ Segmenter
    \/ Merger
    \/ SecondMerger
    \/ EmitSkip
    \/ EmitText
    \/ EmitTextFails
    \/ EmitMath
    \/ EmitMathRejected
    \/ EmitRetryAccepted
    \/ EmitRetryRejected
    \/ EmitLiteral
    \/ EmitLiteralFails
    \/ EmitDone

Spec == Init /\ [][Next]_vars

(***************************************************************************)
(* The OCR batch script (src/utils/OCR_Batch.py, lines 104-158).  A page   *)
(* number i stands for the image page_i.png, for its line in               *)
(* processed_images.txt and for its OCR result in math_ocr_results.txt.    *)
(***************************************************************************)
\* The images of range(1, 41), and the runs of the script that are explored.
NumImages == 3
MaxRuns == 3

\* load_processed_images (lines 73-83): the set of the lines of the record.
load_processed_images == {record_file[k] : k \in 1..Len(record_file)}

\* No run has started; the folder Pictures may be missing, and holds any of
\* the images.
BatchInit ==
    /\ pictures_dir \in BOOLEAN
    /\ pictures \in SUBSET (1..NumImages)
    /\ output_exists = FALSE
    /\ output_file = <<>>
    /\ backups = <<>>
    /\ record_file = <<>>
    /\ processed_images = {}
    /\ failed_images = <<>>
    /\ page = 0
    /\ bpc = "idle"
    /\ runs = 0
    /\ PipelineIdle
    /\ SplitIdle
    /\ EmbedIdle

\* Lines 106-108: the folder is missing, the script exits
ExitNoPicturesDir ==
    /\ bpc = "idle"
    /\ runs < MaxRuns
    /\ ~pictures_dir
    /\ runs' = runs + 1
    /\ UNCHANGED <<pictures_dir, pictures, output_exists, output_file, backups,
                   record_file, processed_images, failed_images, page, bpc>>
    /\ UNCHANGED <<vars, split_vars, embed_vars>>

\* Lines 111-124: the output file of the run before is renamed to a backup,
\* a new output file is written with the title alone, and the record is
\* loaded.
StartRun ==
    /\ bpc = "idle"
    /\ runs < MaxRuns
    /\ pictures_dir
    /\ runs' = runs + 1
    /\ backups' = IF output_exists THEN Append(backups, output_file) ELSE backups
    /\ output_exists' = TRUE
    /\ output_file' = <<>>
    /\ processed_images' = load_processed_images
    /\ failed_images' = <<>>
    /\ page' = 1
    /\ bpc' = "loop"
    /\ UNCHANGED <<pictures_dir, pictures, record_file>>
    /\ UNCHANGED <<vars, split_vars, embed_vars>>

\* Lines 134-136: the image is in the record
SkipProcessed ==
    /\ bpc = "loop"
    /\ page <= NumImages
    /\ page \in processed_images
    /\ page' = page + 1
    /\ UNCHANGED <<pictures_dir, pictures, output_exists, output_file, backups,
                   record_file, processed_images, failed_images, bpc, runs>>
    /\ UNCHANGED <<vars, split_vars, embed_vars>>

\* Lines 139-141: the image file is missing
SkipMissing ==
    /\ bpc = "loop"
    /\ page <= NumImages
    /\ page \notin processed_images
    /\ page \notin pictures
    /\ page' = page + 1
    /\ UNCHANGED <<pictures_dir, pictures, output_exists, output_file, backups,
                   record_file, processed_images, failed_images, bpc, runs>>
    /\ UNCHANGED <<vars, split_vars, embed_vars>>

\* Lines 145-149: get_math_ocr_result returns an error
OcrFails ==
    /\ bpc = "loop"
    /\ page <= NumImages
    /\ page \notin processed_images
    /\ page \in pictures
    /\ failed_images' = Append(failed_images, page)
    /\ page' = page + 1
    /\ UNCHANGED <<pictures_dir, pictures, output_exists, output_file, backups,
                   record_file, processed_images, bpc, runs>>
    /\ UNCHANGED <<vars, split_vars, embed_vars>>

\* Lines 145, 150-155: get_math_ocr_result returns a result; save_ocr_result
\* (lines 93-101) appends it to the output file and save_processed_image
\* (lines 85-91) appends the image to the record (both writes go through).
OcrSucceeds ==
    /\ bpc = "loop"
    /\ page <= NumImages
    /\ page \notin processed_images
    /\ page \in pictures
    /\ output_file' = Append(output_file, page)
    /\ record_file' = Append(record_file, page)
    /\ page' = page + 1
    /\ UNCHANGED <<pictures_dir, pictures, output_exists, backups,
                   processed_images, failed_images, bpc, runs>>
    /\ UNCHANGED <<vars, split_vars, embed_vars>>

\* The loop of line 129 is over: lines 160-172 print the summary
FinishRun ==
    /\ bpc = "loop"
    /\ page > NumImages
    /\ bpc' = "idle"
    /\ UNCHANGED <<pictures_dir, pictures, output_exists, output_file, backups,
                   record_file, processed_images, failed_images, page, runs>>
    /\ UNCHANGED <<vars, split_vars, embed_vars>>

BatchNext ==
    \/ ExitNoPicturesDir
    \/ StartRun
    \/ SkipProcessed
    \/ SkipMissing
    \/ OcrFails
    \/ OcrSucceeds
    \/ FinishRun

BatchSpec == BatchInit /\ [][BatchNext]_batch_vars

(***************************************************************************)
(* TextSplitter (src/models/embedding.py, lines 113-183).  A text is a     *)
(* sequence of characters, as in the pipeline.                             *)
(***************************************************************************)
\* The longest file content and the largest max_chunk_size that are explored.
MaxContentLen == 5
MaxChunkSize == 4

\* The characters of the explored contents: a letter, a sentence mark, and
\* the two whitespace characters a blank line is made of.
SplitAlphabet == {"a", ".", " ", "\n"}

RECURSIVE ContentStrings(_)
ContentStrings(n) ==
    IF n = 0 THEN {<<>>}
    ELSE LET shorter == ContentStrings(n - 1)
         IN  shorter \cup {Append(s, c) : s \in shorter, c \in SplitAlphabet}

\* The characters that end a sentence (line 159); the source also lists the
\* full-width forms of the first three.
SentenceEnds == {".", "!", "?", "\n"}

\* \s*\n from offset q on: the offset after the last newline of the
\* whitespace run that begins at q, or best when the run has none.
RECURSIVE LastNewlineEnd(_, _, _)
LastNewlineEnd(s, q, best) ==
    IF q < Len(s) /\ s[q + 1] \in Whitespace
    THEN LastNewlineEnd(s, q + 1, IF s[q + 1] = "\n" THEN q + 1 ELSE best)
    ELSE best

\* The end of the match of \n\s*\n at offset p, or -1 when it does not match.
BlankLineEnd(s, p) ==
    IF At(s, p) = "\n" THEN LastNewlineEnd(s, p + 1, -1) ELSE -1

\* re.split(r'\n\s*\n', s) (line 125): from is where the current piece
\* begins, p is the offset the search is at.
RECURSIVE SplitBlankLines(_, _, _)
SplitBlankLines(s, from, p) ==
    IF p >= Len(s) THEN <<Slice(s, from, Len(s))>>
    ELSE LET e == BlankLineEnd(s, p)
         IN  IF e >= 0
             THEN <<Slice(s, from, p)>> \o SplitBlankLines(s, e, e)
             ELSE SplitBlankLines(s, from, p + 1)

\* [chunk.strip() for chunk in chunks if chunk.strip()] (line 128)
RECURSIVE StrippedNonEmpty(_)
StrippedNonEmpty(pieces) ==
    IF pieces = <<>> THEN <<>>
    ELSE (IF Strip(Head(pieces)) # <<>> THEN <<Strip(Head(pieces))>> ELSE <<>>)
         \o StrippedNonEmpty(Tail(pieces))

\* The sentence that is appended when it has a visible character
\* (lines 160-161 and 165-166).
SentenceIfAny(current_sentence) ==
    IF Strip(current_sentence) # <<>> THEN <<Strip(current_sentence)>> ELSE <<>>

\* The sentence loop of _split_long_chunk (lines 154-166).
RECURSIVE Sentences(_, _)
Sentences(s, current_sentence) ==
    IF s = <<>> THEN SentenceIfAny(current_sentence)
    ELSE LET longer == Append(current_sentence, Head(s))
         IN  IF Head(s) \in SentenceEnds
             THEN SentenceIfAny(longer) \o Sentences(Tail(s), <<>>)
             ELSE Sentences(Tail(s), longer)

\* The chunk that is appended when it is not empty (lines 176-177, 180-181).
ChunkIfAny(current_chunk) ==
    IF current_chunk # <<>> THEN <<current_chunk>> ELSE <<>>

\* The merge loop of _split_long_chunk (lines 169-181): the test of line 173
\* adds the two lengths; line 174 joins with a space.
RECURSIVE MergeSentences(_, _, _)
MergeSentences(sentences, current_chunk, size) ==
    IF sentences = <<>> THEN ChunkIfAny(current_chunk)
    ELSE LET sentence == Head(sentences)
         IN  IF Len(current_chunk) + Len(sentence) <= size
             THEN MergeSentences(Tail(sentences),
                                 IF current_chunk # <<>>
                                 THEN current_chunk \o <<" ">> \o sentence
                                 ELSE sentence,
                                 size)
             ELSE ChunkIfAny(current_chunk)
                  \o MergeSentences(Tail(sentences), sentence, size)

\* _split_long_chunk (lines 143-183)
split_long_chunk(s, size) == MergeSentences(Sentences(s, <<>>), <<>>, size)

\* split_text is called with any content and any positive max_chunk_size.
SplitInit ==
    /\ file_content \in ContentStrings(MaxContentLen)
    /\ max_chunk_size \in 1..MaxChunkSize
    /\ chunks = <<>>
    /\ processed_chunks = <<>>
    /\ chunk_idx = 0
    /\ spc = "split"
    /\ PipelineIdle
    /\ BatchIdle
    /\ EmbedIdle

\* Lines 125-131: the stripped, non-empty pieces between blank lines.
SplitByBlankLines ==
    /\ spc = "split"
    /\ chunks' = StrippedNonEmpty(SplitBlankLines(file_content, 0, 0))
    /\ processed_chunks' = <<>>
    /\ chunk_idx' = 1
    /\ spc' = "loop"
    /\ UNCHANGED <<file_content, max_chunk_size>>
    /\ UNCHANGED <<vars, batch_vars, embed_vars>>

\* Lines 133-134: a chunk within the size is kept.
KeepChunk ==
    /\ spc = "loop"
    /\ chunk_idx <= Len(chunks)
    /\ Len(chunks[chunk_idx]) <= max_chunk_size
    /\ processed_chunks' = Append(processed_chunks, chunks[chunk_idx])
    /\ chunk_idx' = chunk_idx + 1
    /\ UNCHANGED <<file_content, max_chunk_size, chunks, spc>>
    /\ UNCHANGED <<vars, batch_vars, embed_vars>>

\* Lines 135-138: a longer chunk is replaced by the chunks of
\* _split_long_chunk.
SplitLongChunk ==
    /\ spc = "loop"
    /\ chunk_idx <= Len(chunks)
    /\ Len(chunks[chunk_idx]) > max_chunk_size
    /\ processed_chunks' =
           processed_chunks \o split_long_chunk(chunks[chunk_idx], max_chunk_size)
    /\ chunk_idx' = chunk_idx + 1
    /\ UNCHANGED <<file_content, max_chunk_size, chunks, spc>>
    /\ UNCHANGED <<vars, batch_vars, embed_vars>>

\* Lines 140-141: the loop is over and processed_chunks is returned.
ReturnChunks ==
    /\ spc = "loop"
    /\ chunk_idx > Len(chunks)
    /\ spc' = "done"
    /\ UNCHANGED <<file_content, max_chunk_size, chunks, processed_chunks, chunk_idx>>
    /\ UNCHANGED <<vars, batch_vars, embed_vars>>

SplitNext ==
    \/ SplitByBlankLines
    \/ KeepChunk
    \/ SplitLongChunk
    \/ ReturnChunks

SplitSpec == SplitInit /\ [][SplitNext]_split_vars

(***************************************************************************)
(* DoubaoEmbeddings.embed_documents (src/models/embedding.py, lines 37-77)  *)
(* as process_single_file calls it (lines 303-329).  The embedding service  *)
(* answers a call with one item per input text, each with the index of its  *)
(* text, in any order, or the call raises.                                  *)
(***************************************************************************)
\* The most chunks and the largest batch_size that are explored.
MaxTexts == 4
MaxBatchSize == 3

\* The chunks split_text can hand over: non-empty texts.
ChunkTexts == {<<"a">>, <<"a", ".">>}

RECURSIVE ChunkLists(_)
ChunkLists(n) ==
    IF n = 0 THEN {<<>>}
    ELSE LET shorter == ChunkLists(n - 1)
         IN  shorter \cup {Append(l, c) : l \in shorter, c \in ChunkTexts}

\* The vector the service computes for a text: a non-empty list that names
\* its text, so that two texts have the same vector only when they are equal.
Embedding(t) == <<t>>

\* texts[i:i + self.batch_size] (line 51), i a 0-based offset.
BatchTexts(i) ==
    SubSeq(texts, i + 1, IF i + batch_size < Len(texts) THEN i + batch_size
                         ELSE Len(texts))

\* resp.data when the items arrive in the order given by order: item j is
\* about input order[j] (0-based index order[j] - 1).
ResponseData(batch_texts, order) ==
    [j \in 1..Len(batch_texts) |->
        [index |-> order[j] - 1, embedding |-> Embedding(batch_texts[order[j]])]]

\* The orders in which the items of a response for n inputs can arrive.
Orders(n) ==
    {o \in [1..n -> 1..n] : \A a, b \in 1..n : o[a] = o[b] => a = b}

RECURSIVE InsertByIndex(_, _)
InsertByIndex(item, sorted) ==
    IF sorted = <<>> THEN <<item>>
    ELSE IF item.index < Head(sorted).index THEN <<item>> \o sorted
    ELSE <<Head(sorted)>> \o InsertByIndex(item, Tail(sorted))

\* sorted(resp.data, key=lambda x: x.index) (line 63)
RECURSIVE SortedByIndex(_)
SortedByIndex(data) ==
    IF data = <<>> THEN <<>>
    ELSE InsertByIndex(Head(data), SortedByIndex(Tail(data)))

\* batch_embeddings (lines 62-64)
BatchEmbeddings(data) ==
    LET sorted == SortedByIndex(data)
    IN  [j \in 1..Len(sorted) |-> sorted[j].embedding]

\* A variant of line 75 with one placeholder for the whole batch.
Placeholders_OnePerBatch(batch_texts) == << <<>> >>

\* [[] for _ in batch_texts] (line 75)
Placeholders(batch_texts) == [j \in 1..Len(batch_texts) |-> <<>>]

\* The loop of lines 316-326 from the 0-based position i of zip on: a pair
\* whose embedding is not empty is kept with chunk_id = i.
RECURSIVE ValidData(_, _, _)
ValidData(cs, es, i) ==
    IF i >= Len(cs) \/ i >= Len(es) THEN <<>>
    ELSE (IF es[i + 1] # <<>>
          THEN <<[text |-> cs[i + 1], embedding |-> es[i + 1],
                  chunk_id |-> i, chunk_size |-> Len(cs[i + 1])]>>
          ELSE <<>>)
         \o ValidData(cs, es, i + 1)

\* process_single_file has the chunks of split_text (line 304) and an
\* embedding model with a positive batch_size.
EmbedInit ==
    /\ texts \in ChunkLists(MaxTexts)
    /\ batch_size \in 1..MaxBatchSize
    /\ all_embeddings = <<>>
    /\ batch_start = 0
    /\ embeddings = <<>>
    /\ valid_data = <<>>
    /\ epc = "start"
    /\ PipelineIdle
    /\ BatchIdle
    /\ SplitIdle

\* Lines 306-308: no chunk, process_single_file returns None.
ReturnNoChunks ==
    /\ epc = "start"
    /\ texts = <<>>
    /\ epc' = "none"
    /\ UNCHANGED <<texts, batch_size, all_embeddings, batch_start, embeddings,
                   valid_data>>
    /\ UNCHANGED <<vars, batch_vars, split_vars>>

\* Lines 311 and 47-50: embed_documents is called with the chunks.
CallEmbedDocuments ==
    /\ epc = "start"
    /\ texts # <<>>
    /\ all_embeddings' = <<>>
    /\ batch_start' = 0
    /\ epc' = "embed"
    /\ UNCHANGED <<texts, batch_size, embeddings, valid_data>>
    /\ UNCHANGED <<vars, batch_vars, split_vars>>

\* Lines 51-69: the call for the batch succeeds.
BatchSucceeds ==
    /\ epc = "embed"
    /\ batch_start < Len(texts)
    /\ \E order \in Orders(Len(BatchTexts(batch_start))) :
           all_embeddings' =
               all_embeddings
               \o BatchEmbeddings(ResponseData(BatchTexts(batch_start), order))
    /\ batch_start' = batch_start + batch_size
    /\ UNCHANGED <<texts, batch_size, embeddings, valid_data, epc>>
    /\ UNCHANGED <<vars, batch_vars, split_vars>>

\* Lines 51-54 and 71-75: the call for the batch raises.
BatchFails ==
    /\ epc = "embed"
    /\ batch_start < Len(texts)
    /\ all_embeddings' = all_embeddings \o Placeholders(BatchTexts(batch_start))
    /\ batch_start' = batch_start + batch_size
    /\ UNCHANGED <<texts, batch_size, embeddings, valid_data, epc>>
    /\ UNCHANGED <<vars, batch_vars, split_vars>>

\* Lines 77 and 311: the loop is over, process_single_file has the list.
ReturnEmbeddings ==
    /\ epc = "embed"
    /\ batch_start >= Len(texts)
    /\ embeddings' = all_embeddings
    /\ epc' = "filter"
    /\ UNCHANGED <<texts, batch_size, all_embeddings, batch_start, valid_data>>
    /\ UNCHANGED <<vars, batch_vars, split_vars>>

\* Lines 314-329: the failed embeddings are filtered out.
FilterEmbeddings ==
    /\ epc = "filter"
    /\ valid_data' = ValidData(texts, embeddings, 0)
    /\ epc' = "done"
    /\ UNCHANGED <<texts, batch_size, all_embeddings, batch_start, embeddings>>
    /\ UNCHANGED <<vars, batch_vars, split_vars>>

EmbedNext ==
    \/ ReturnNoChunks
    \/ CallEmbedDocuments
    \/ BatchSucceeds
    \/ BatchFails
    \/ ReturnEmbeddings
    \/ FilterEmbeddings

EmbedSpec == EmbedInit /\ [][EmbedNext]_embed_vars

(***************************************************************************)
(* Properties                                                              *)
(***************************************************************************)
\* The resolver has run.
Resolved == pc \notin {"start", "scan", "resolve"}

\* The half-open intervals of two spans share no offset.
Disjoint(a, b) == a.end <= b.start \/ b.end <= a.start

\* s has a character that is not whitespace.
HasVisibleChar(s) == \E k \in 1..Len(s) : s[k] \notin Whitespace

\* C1: the accepted spans are sorted by ascending start and are pairwise
\* non-overlapping as half-open intervals, whatever families matched.
AcceptedSpansSortedDisjoint ==
    \A i, j \in 1..Len(filtered_matches) :
        i < j => /\ filtered_matches[i].start <= filtered_matches[j].start
                 /\ Disjoint(filtered_matches[i], filtered_matches[j])

\* C1 witness: the resolver discarded an overlapping candidate of another
\* family and accepted two spans.
ResolverDiscardedOverlap ==
    /\ pc = "segment"
    /\ Len(filtered_matches) >= 2
    /\ \E k \in 1..Len(all_matches) :
           /\ \A i \in 1..Len(filtered_matches) : filtered_matches[i] # all_matches[k]
           /\ \E i \in 1..Len(filtered_matches) :
                  ~Disjoint(filtered_matches[i], all_matches[k])

\* C2: every retained span, every segment, every block and every argument of
\* a render call (the retry and the literal fallback included) has a
\* character that is not whitespace.
NothingVacuous ==
    /\ \A k \in 1..Len(all_matches) : HasVisibleChar(all_matches[k].content)
    /\ \A k \in 1..Len(filtered_matches) : HasVisibleChar(filtered_matches[k].content)
    /\ \A k \in 1..Len(result_parts) : HasVisibleChar(result_parts[k].content)
    /\ \A k \in 1..Len(text_blocks) : HasVisibleChar(text_blocks[k].content)
    /\ \A k \in 1..Len(merged_blocks) : HasVisibleChar(merged_blocks[k].content)
    /\ \A k \in 1..Len(calls) : HasVisibleChar(calls[k].arg)

\* C2 witness: a whitespace-only candidate was dropped, and a text block, a
\* formula, its retry and its literal fallback were rendered.
RenderedAfterDroppingVacuous ==
    /\ pc = "done"
    /\ \E k \in 1..Len(calls) : calls[k].prim = "markdown" /\ calls[k].arg[1] # Backquote
    /\ \E k \in 1..Len(calls) : calls[k].prim = "markdown" /\ calls[k].arg[1] = Backquote
    /\ \E p \in 0..Len(text) : \E q \in (p + 3)..Len(text) : \E f \in Families :
           /\ MatchEndAt(f, text, p) = q
           /\ ~HasVisibleChar(Group1(f, text, <<p, q>>))

\* The segmenter has run (it does not when no span is accepted).
Segmented ==
    pc \in {"merge", "merge2", "emit", "done"} /\ filtered_matches # <<>>

\* The characters of s that are not whitespace, in order.
Visible(s) == SelectSeq(s, LAMBDA c : c \notin Whitespace)

\* The accepted span that starts at offset p.
SpanAt(p) ==
    filtered_matches[CHOOSE k \in 1..Len(filtered_matches) :
                         filtered_matches[k].start = p]

\* The length of the delimiter that opens at offset p of the normalized text.
DelimiterLenAt(p) ==
    IF At(text, p) = BS \/ At(text, p + 1) = "$" THEN 2 ELSE 1

\* A segment as it stood in the text: a formula between the delimiters that
\* its span consumed.
WithDelimiters(part) ==
    IF part.type = "text" THEN part.content
    ELSE LET m == SpanAt(part.pos)
             d == DelimiterLenAt(m.start)
         IN  Slice(text, m.start, m.start + d) \o part.content
                 \o Slice(text, m.end - d, m.end)

SegmentsWithDelimiters ==
    Concat([k \in 1..Len(result_parts) |-> WithDelimiters(result_parts[k])])

\* C3 as claimed: the segments, read in order and with the consumed
\* delimiters put back, are the non-whitespace characters of the input, none
\* lost, duplicated or reordered.
SegmentsPreserveInput ==
    Segmented => Visible(SegmentsWithDelimiters) = Visible(input)

\* C3 as amended: the segments, read in order and with the consumed
\* delimiters put back, are the non-whitespace characters of the normalized
\* text, none lost, duplicated or reordered.
SegmentsPreserveNormalizedText ==
    Segmented => Visible(SegmentsWithDelimiters) = Visible(text)

\* C3 witness: the normalizer changed the input, and the segmenter produced
\* plain text and a formula.
SegmentedNormalizedInput ==
    /\ Segmented
    /\ text # input
    /\ \E k \in 1..Len(result_parts) : result_parts[k].type = "text"
    /\ \E k \in 1..Len(result_parts) : result_parts[k].type # "text"

\* The rendering surface accepted every call.
AllAccepted == \A k \in 1..Len(calls) : calls[k].ok

\* The blocks the calls rendered.
RenderedBlocks ==
    [k \in 1..Len(calls) |->
        [type |-> IF calls[k].prim = "latex" THEN "block_latex" ELSE "text",
         content |-> calls[k].arg]]

\* A text block as its markup, a formula between "$$" and "$$".
Serialized(blocks) ==
    Concat([k \in 1..Len(blocks) |->
               IF blocks[k].type = "text" THEN blocks[k].content
               ELSE <<"$", "$">> \o blocks[k].content \o <<"$", "$">>])

\* C4: the blocks of a run, serialized to one string and rendered again,
\* give the same sequence of block types and contents.
RenderingIsIdempotent ==
    (pc = "done" /\ AllAccepted) =>
        RenderBlocks(Serialized(RenderedBlocks)) = RenderedBlocks

\* C5: the render calls follow the source order of the segments: a call for
\* a block that starts earlier in the text is made before every call for a
\* block that starts later, and no stage reorders segments or blocks.
CallsFollowSourceOrder ==
    /\ \A i, j \in 1..Len(result_parts) :
           i < j => result_parts[i].pos < result_parts[j].pos
    /\ \A i, j \in 1..Len(merged_blocks) :
           i < j => merged_blocks[i].pos < merged_blocks[j].pos
    /\ \A i, j \in 1..Len(calls) :
           i < j => /\ calls[i].pos <= calls[j].pos
                    /\ calls[i].blk <= calls[j].blk
                    /\ calls[i].pos = calls[j].pos <=> calls[i].blk = calls[j].blk

\* C5 witness: three blocks or more were rendered, one of them after two
\* rejections.
SeveralBlocksRendered ==
    /\ pc = "done"
    /\ ~raised
    /\ Cardinality({calls[k].blk : k \in 1..Len(calls)}) >= 3
    /\ \E k \in 1..Len(calls) : calls[k].prim = "markdown" /\ calls[k].arg[1] = Backquote

\* The content of the block that call k was made for.
BlockContentOf(k) == merged_blocks[calls[k].blk].content

\* Call k is the first st.latex call of its block.
IsFirstAttempt(k) ==
    /\ calls[k].prim = "latex"
    /\ k = 1 \/ calls[k - 1].blk # calls[k].blk

\* Every pair of backslashes of s collapsed to one backslash.
Collapsed(s) == CollapseBackslashes(s, 0)

\* What the emitter does with a formula block, the literal fallback showing
\* literal(content): the first call is st.latex(content); a rejected first
\* call is followed by one retry with the collapsed content; a rejected retry
\* is followed by st.markdown of the literal between backquotes; there is no
\* third st.latex call; and a rejection is never passed on to the caller.
RejectionHandling(literal(_)) ==
    \A k \in 1..Len(calls) :
        calls[k].prim = "latex" =>
            /\ calls[k].blk \in 1..Len(merged_blocks)
            /\ merged_blocks[calls[k].blk].type = "block_latex"
            /\ IF IsFirstAttempt(k)
               THEN calls[k].arg = BlockContentOf(k)
               ELSE /\ IsFirstAttempt(k - 1)
                    /\ ~calls[k - 1].ok
                    /\ calls[k].arg = Collapsed(BlockContentOf(k))
            /\ (~calls[k].ok /\ k = Len(calls)) => (pc = "emit" /\ ~raised)
            /\ (~calls[k].ok /\ k < Len(calls)) =>
                   /\ calls[k + 1].blk = calls[k].blk
                   /\ IF IsFirstAttempt(k)
                      THEN calls[k + 1].prim = "latex"
                      ELSE /\ calls[k + 1].prim = "markdown"
                           /\ calls[k + 1].arg =
                                  <<Backquote>> \o literal(BlockContentOf(k))
                                      \o <<Backquote>>
            /\ (calls[k].ok /\ k < Len(calls)) => calls[k + 1].blk # calls[k].blk

RawFormula(content) == content

\* C6 as claimed: a rejected formula is retried once with its double
\* backslashes collapsed; after a second rejection the raw, untouched formula
\* text is rendered as an inline literal; the rejection is not propagated.
RejectedFormulaFallsBackToRawText == RejectionHandling(RawFormula)

\* C6 as amended: a rejected formula is retried once with its double
\* backslashes collapsed; after a second rejection the text of the retry (the
\* collapsed formula, not the raw one) is rendered as an inline literal; the
\* rejection is not propagated.
RejectedFormulaFallsBackToRetryText == RejectionHandling(Collapsed)

\* C6 witness: a formula with a double backslash was rejected twice and
\* rendered as a literal.
LiteralOfCollapsedFormula ==
    /\ pc = "done"
    /\ ~raised
    /\ \E k \in 2..Len(calls) :
           /\ calls[k].prim = "latex"
           /\ ~calls[k].ok
           /\ ~IsFirstAttempt(k)
           /\ Collapsed(BlockContentOf(k)) # BlockContentOf(k)

\* The markup primitive failed no call.
MarkupNeverFailed ==
    \A k \in 1..Len(calls) : calls[k].prim = "markdown" => calls[k].ok

\* The math primitive rejected block b.
RejectedBlock(b) ==
    \E k \in 1..Len(calls) :
        calls[k].blk = b /\ calls[k].prim = "latex" /\ ~calls[k].ok

\* The calls made for block b: primitive and argument.
CallsOf(b) ==
    LET mine == SelectSeq(calls, LAMBDA c : c.blk = b)
    IN  [k \in 1..Len(mine) |-> <<mine[k].prim, mine[k].arg>>]

\* The calls block b gets when nothing is rejected.
CallsWithoutRejection(b) ==
    IF merged_blocks[b].type = "text"
    THEN IF RendersText(merged_blocks[b].content)
         THEN << <<"markdown", CleanedText(merged_blocks[b].content)>> >>
         ELSE <<>>
    ELSE << <<"latex", merged_blocks[b].content>> >>

\* C7: when the math primitive rejects a formula (once or twice), every
\* other block is rendered with the calls it gets when nothing is rejected,
\* and the calls stay in block order.
RejectionAffectsOneBlock ==
    (pc = "done" /\ MarkupNeverFailed) =>
        /\ \A b \in 1..Len(merged_blocks) :
               ~RejectedBlock(b) => CallsOf(b) = CallsWithoutRejection(b)
        /\ \A i, j \in 1..Len(calls) : i < j => calls[i].blk <= calls[j].blk

\* C7 witness: a formula was rejected twice, with a block rendered before it
\* and a block rendered after it.
RejectedBetweenRenderedBlocks ==
    /\ pc = "done"
    /\ MarkupNeverFailed
    /\ \E b \in 2..(Len(merged_blocks) - 1) :
           /\ RejectedBlock(b)
           /\ Len(CallsOf(b)) = 3
           /\ ~RejectedBlock(b - 1) /\ CallsOf(b - 1) # <<>>
           /\ ~RejectedBlock(b + 1) /\ CallsOf(b + 1) # <<>>

\* C8: no failure of the rendering surface, st.markdown or st.latex, the
\* markup call of the literal fallback included, leaves
\* render_text_with_latex as an exception, and the remaining blocks are
\* rendered.
NoRenderFailureIsFatal ==
    /\ ~raised
    /\ pc = "done" =>
           \A b \in 1..Len(merged_blocks) :
               CallsWithoutRejection(b) # <<>> => CallsOf(b) # <<>>

\* The pattern of family f matches the whole of s, and the content it
\* captures is whitespace and nothing else.
WhitespaceOnlyFormula(f, s) ==
    /\ MatchEndAt(f, s, 0) = Len(s)
    /\ ~HasVisibleChar(Group1(f, s, <<0, Len(s)>>))

\* C9: for "$$   $$", and for any input that is one formula with
\* whitespace-only content, no render call is made.
WhitespaceOnlyFormulaRendersNothing ==
    (\E f \in Families : WhitespaceOnlyFormula(f, input)) => calls = <<>>

Span(start, end, mtype, content) ==
    [start |-> start, end |-> end, mtype |-> mtype, content |-> content]

\* For the input \( $x$ \): the span of \(...\) is accepted and the span of
\* $x$ inside it is a candidate that is discarded.
ParenSpanWinsOverDollarSpan ==
    /\ filtered_matches = <<Span(0, 9, "inline", <<"$", "x", "$">>)>>
    /\ \E k \in 1..Len(all_matches) :
           all_matches[k] = Span(3, 6, "inline", <<"x">>)

DoubledEscapingEmitsMathBlock ==
    (input = DoubledEscaping /\ pc # "start") =>
        /\ Visible(text) = <<BS, "[", "a", "=", "b", BS, "]">>
        /\ (pc = "done" /\ AllAccepted) =>
               /\ Len(calls) = 1
               /\ calls[1].prim = "latex"
               /\ calls[1].arg = <<"a", "=", "b">>

\* s[p:p+len(sub)] = sub for some offset p.
Contains(s, sub) == \E p \in 0..(Len(s) - Len(sub)) : HasAt(s, p, sub)

\* The rendering loop has its blocks.
Merged == pc \in {"emit", "done"}

\* The index of the last block that begins at or before offset p of the
\* text, 0 when there is none.
Cover(p) ==
    LET before == {b \in 1..Len(merged_blocks) : merged_blocks[b].pos <= p}
    IN  IF before = {} THEN 0 ELSE CHOOSE b \in before : \A c \in before : c <= b

\* The text between accepted span k and the span before it (or the start of
\* the text), and between span k and the span after it (or the end).
ProseBefore(k) ==
    Slice(text, IF k = 1 THEN 0 ELSE filtered_matches[k - 1].end,
          filtered_matches[k].start)

ProseAfter(k) ==
    Slice(text, filtered_matches[k].end,
          IF k = Len(filtered_matches) THEN Len(text)
          ELSE filtered_matches[k + 1].start)

\* The three blocks of the example.
SolveExampleBlocks ==
    << [type |-> "text", content |->
           <<"S", "o", "l", "v", "e", " ", "$", "x", "+", "1", "=", "2", "$", " ",
      "t", "h", "e", "n">>],
       [type |-> "block_latex", content |->
           <<BS, "i", "n", "t", "_", "0", "^", "1", " ", "x", BS, ",", "d", "x",
      " ", "=", " ", BS, "f", "r", "a", "c", "{", "1", "}", "{", "2", "}">>],
       [type |-> "text", content |->
           <<"D", "o", "n", "e", ".">>] >>

\* C12: the example "Solve $x+1=2$ then", blank line, the block formula,
\* blank line, "Done." is emitted as exactly three blocks in this order: the
\* text block with the inline formula, the formula block, the text block
\* "Done."; and for every input an inline formula stays in the text block of
\* the prose around it, while a block formula is a block of its own between
\* the text block of the prose before it and that of the prose after it.
InlineStaysBlockSplits ==
    /\ (input = SolveExample /\ Merged) =>
           /\ EmittedOf(merged_blocks) = SolveExampleBlocks
           /\ (pc = "done" /\ AllAccepted) => RenderedBlocks = SolveExampleBlocks
    /\ Merged =>
           \A k \in 1..Len(filtered_matches) :
               LET m == filtered_matches[k]
                   b == Cover(m.start)
               IN  IF m.mtype = "inline"
                   THEN /\ b >= 1
                        /\ merged_blocks[b].type = "text"
                        /\ Contains(merged_blocks[b].content,
                                    <<"$">> \o m.content \o <<"$">>)
                        /\ HasVisibleChar(ProseBefore(k)) =>
                               merged_blocks[b].pos < m.start
                        /\ HasVisibleChar(ProseAfter(k)) => Cover(m.end) = b
                   ELSE /\ b >= 1
                        /\ merged_blocks[b] = Part("block_latex", m.content, m.start)
                        /\ HasVisibleChar(ProseBefore(k)) =>
                               /\ b >= 2
                               /\ merged_blocks[b - 1].type = "text"
                               /\ Cover(m.start - 1) = b - 1
                        /\ HasVisibleChar(ProseAfter(k)) =>
                               /\ b < Len(merged_blocks)
                               /\ merged_blocks[b + 1].type = "text"
                               /\ merged_blocks[b + 1].pos = m.end

\* C12 witness: the example was rendered, every call accepted.
SolveExampleRendered ==
    input = SolveExample /\ pc = "done" /\ AllAccepted /\ Len(calls) = 3

\* C13: for an input that is empty or only whitespace, no segment and no
\* block is produced, no render call is made and no error is raised.
EmptyInputRendersNothing ==
    ~HasVisibleChar(input) =>
        /\ all_matches = <<>>
        /\ result_parts = <<>>
        /\ text_blocks = <<>>
        /\ merged_blocks = <<>>
        /\ calls = <<>>
        /\ ~raised

\* C13 witness: render_text_with_latex returned for an input of whitespace
\* characters.
WhitespaceInputReturned ==
    input # <<>> /\ ~HasVisibleChar(input) /\ pc = "done"

\* The delimiters of the four families, as written in a text.
OpenDelimiter(f) ==
    CASE f = 1 -> <<"$", "$">> [] f = 2 -> <<BS, "[">>
      [] f = 3 -> <<"$">>      [] f = 4 -> <<BS, "(">>

CloseDelimiter(f) ==
    CASE f = 1 -> <<"$", "$">> [] f = 2 -> <<BS, "]">>
      [] f = 3 -> <<"$">>      [] f = 4 -> <<BS, ")">>

\* A delimiter of family f opens at offset p of the text: "\[" or "\(", a
\* "$" with no "$" next to it, or the first two of a run of "$".
OpensAt(f, p) ==
    /\ HasAt(text, p, OpenDelimiter(f))
    /\ f \in {1, 3} => At(text, p - 1) # "$"
    /\ f = 3 => At(text, p + 1) # "$"

\* The offset at which a formula opened at p can no longer close: the end
\* of the text for the block families, of the line for the inline ones.
ReachOf(f, p) ==
    IF f \in {1, 2} THEN Len(text)
    ELSE LET breaks == {q \in p..(Len(text) - 1) : At(text, q) = "\n"}
         IN  IF breaks = {} THEN Len(text)
             ELSE CHOOSE q \in breaks : \A r \in breaks : q <= r

\* The delimiter opened at p is never closed: no closing delimiter of its
\* family follows it (one of another family may).
NeverClosed(f, p) ==
    /\ OpensAt(f, p)
    /\ \A q \in (p + Len(OpenDelimiter(f)))..(ReachOf(f, p) - 1) :
           ~HasAt(text, q, CloseDelimiter(f))

\* Offset p is not inside an accepted span that begins before it.
OutsideAcceptedSpans(p) ==
    \A k \in 1..Len(filtered_matches) :
        p <= filtered_matches[k].start \/ filtered_matches[k].end <= p

\* The plain text that holds offset p once the blocks are built: the whole
\* text when no span was accepted, else the content of the block over p.
PlainTextOver(p) ==
    IF filtered_matches = <<>> THEN text ELSE merged_blocks[Cover(p)].content

\* C14: when a delimiter is opened (outside every formula) and never closed,
\* or closed only by a delimiter of another family, no candidate span starts
\* at it, the mismatch raises nothing (an exception leaves the function only
\* when a markup call fails), and the delimiter stays in a plain-text
\* segment and in a text block, which is rendered as every text block is:
\* trimmed and sanitized, through the markup primitive and never through the
\* math primitive.
UnclosedDelimiterIsPlainText ==
    /\ raised => ~MarkupNeverFailed
    /\ Resolved =>
         \A f \in Families : \A p \in 0..(Len(text) - 1) :
           (NeverClosed(f, p) /\ OutsideAcceptedSpans(p)) =>
               LET d == OpenDelimiter(f) IN
               /\ \A k \in 1..Len(all_matches) : all_matches[k].start # p
               /\ Segmented =>
                      \E k \in 1..Len(result_parts) :
                          /\ result_parts[k].type = "text"
                          /\ result_parts[k].pos <= p
                          /\ HasAt(result_parts[k].content,
                                   p - result_parts[k].pos, d)
               /\ (pc = "done" /\ ~raised) =>
                      /\ filtered_matches # <<>> =>
                             /\ Cover(p) >= 1
                             /\ merged_blocks[Cover(p)].type = "text"
                      /\ Contains(PlainTextOver(p), d)
                      /\ HasVisibleChar(CleanedText(PlainTextOver(p))) =>
                             \E k \in 1..Len(calls) : calls[k].blk = Cover(p)
                      /\ \A k \in 1..Len(calls) :
                             calls[k].blk = Cover(p) =>
                                 /\ calls[k].prim = "markdown"
                                 /\ calls[k].arg = CleanedText(PlainTextOver(p))

\* C14 witness: a delimiter closed by one of another family, next to an
\* accepted formula, was rendered.
MismatchedDelimiterRendered ==
    /\ pc = "done"
    /\ ~raised
    /\ filtered_matches # <<>>
    /\ \E f \in Families : \E p \in 0..(Len(text) - 1) :
           /\ NeverClosed(f, p)
           /\ OutsideAcceptedSpans(p)
           /\ \E k \in 1..Len(calls) :
                  calls[k].blk = Cover(p) /\ Contains(calls[k].arg, OpenDelimiter(f))
           /\ \E g \in Families \ {f} : \E q \in (p + 1)..(Len(text) - 1) :
                  HasAt(text, q, CloseDelimiter(g)) /\ OutsideAcceptedSpans(q)

\* A segment as the Merger writes it into a text block: plain text raw, an
\* inline formula between "$" and "$".
SegmentText(part) ==
    IF part.type = "inline_latex" THEN <<"$">> \o part.content \o <<"$">>
    ELSE part.content

\* Segments i..j are a maximal run of consecutive segments that are not
\* block formulas.
IsRun(i, j) ==
    /\ i \in 1..Len(result_parts) /\ j \in i..Len(result_parts)
    /\ \A k \in i..j : result_parts[k].type # "block_latex"
    /\ i = 1 \/ result_parts[i - 1].type = "block_latex"
    /\ j = Len(result_parts) \/ result_parts[j + 1].type = "block_latex"

RunText(i, j) ==
    Concat([k \in 1..(j - i + 1) |-> SegmentText(result_parts[i + k - 1])])

\* blocks are the maximal runs of the segments, each concatenated into one
\* text block, and the block formulas, each a block of its own.
GroupsRuns(blocks) ==
    /\ \A b \in 1..Len(blocks) :
           IF blocks[b].type = "text"
           THEN \E i, j \in 1..Len(result_parts) :
                    /\ IsRun(i, j)
                    /\ blocks[b].pos = result_parts[i].pos
                    /\ blocks[b].content = RunText(i, j)
           ELSE \E i \in 1..Len(result_parts) : result_parts[i] = blocks[b]
    /\ \A i, j \in 1..Len(result_parts) :
           IsRun(i, j) =>
               /\ Cardinality({b \in 1..Len(blocks) :
                                  blocks[b].pos = result_parts[i].pos}) = 1
               /\ \A q \in 1..Len(result_parts) :
                      result_parts[q].type = "block_latex" => (q < i \/ j < q)
    /\ \A k \in 1..Len(filtered_matches) :
           filtered_matches[k].mtype = "block" =>
               Cardinality({b \in 1..Len(blocks) :
                   blocks[b] = Part("block_latex", filtered_matches[k].content,
                                    filtered_matches[k].start)}) = 1

\* C15: each text block is exactly the concatenation, in source order, of
\* one maximal run of consecutive non-block segments (plain text raw, an
\* inline formula as $content$); every accepted block span gives one formula
\* block of its own; text before a block formula is never in the text block
\* of text after it.  This holds after the first merge pass and after the
\* second.
MergerGroupsMaximalRuns ==
    /\ pc \in {"merge2", "emit", "done"} => GroupsRuns(text_blocks)
    /\ Merged => GroupsRuns(merged_blocks)

\* C15 witness: a run of three segments or more was merged into one text
\* block, before a block formula that has text after it.
RunMergedBeforeBlockFormula ==
    /\ Merged
    /\ \E i, j, q, r \in 1..Len(result_parts) :
           /\ IsRun(i, j) /\ j >= i + 2
           /\ q = j + 1
           /\ IsRun(q + 1, r)

\* An empty container pair begins at offset p of s: an opening div, span or
\* p tag, whitespace and nothing else, and the closing tag of the same name.
EmptyContainerAt(s, p) ==
    \E name \in {DIV, SPAN, PTAG} : MatchItems(EmptyPair(name), 1, s, p) >= 0

\* Call k renders a text block (the literal fallback renders a formula).
RendersTextBlock(k) ==
    /\ calls[k].prim = "markdown"
    /\ calls[k].blk = 0 \/ merged_blocks[calls[k].blk].type = "text"

\* C16: after clean_html_content a text block holds no empty container pair
\* (a div, span or p pair around whitespace only); in particular the input
\* <div><div></div></div> is removed entirely, so that nothing is rendered
\* for it.
SanitizedTextHasNoEmptyContainer ==
    /\ \A k \in 1..Len(calls) :
           RendersTextBlock(k) =>
               \A p \in 0..(Len(calls[k].arg) - 1) :
                   ~EmptyContainerAt(calls[k].arg, p)
    /\ input = NestedEmptyDiv => calls = <<>>

\* A maximal run of backslashes begins at offset p of s.
RunStartsAt(s, p) == At(s, p) = BS /\ At(s, p - 1) # BS

\* The length of the run of backslashes that begins at offset p of s.
RunLength(s, p) ==
    CHOOSE n \in 1..(Len(s) - p) :
        /\ \A k \in 0..(n - 1) : At(s, p + k) = BS
        /\ At(s, p + n) # BS

\* The run that begins at p has two backslashes or more and is directly
\* followed by "[" or "(".
Reducible(s, p) ==
    /\ RunStartsAt(s, p)
    /\ RunLength(s, p) >= 2
    /\ At(s, p + RunLength(s, p)) \in {"[", "("}

\* s without the characters at the offsets of gone, the others in order.
WithoutOffsets(s, gone) ==
    LET kept == (0..(Len(s) - 1)) \ gone
    IN  [k \in 1..Cardinality(kept) |->
            At(s, CHOOSE p \in kept :
                      Cardinality({q \in kept : q < p}) = k - 1)]

\* C17: the normalized text is the input with one backslash taken from each
\* maximal run of n >= 2 backslashes that is directly followed by "[" or "("
\* (the run becomes n-1 backslashes); every other character, single
\* backslashes and line breaks included, is unchanged.
NormalizerReducesRunsByOne ==
    pc # "start" =>
        text = WithoutOffsets(input, {p \in 0..(Len(input) - 1) :
                                         Reducible(input, p)})

\* C17 witness: the Normalizer reduced a run of three backslashes or more
\* and left another run of backslashes as it was.
LongRunReduced ==
    /\ pc # "start"
    /\ \E p \in 0..(Len(input) - 1) :
           Reducible(input, p) /\ RunLength(input, p) >= 3
    /\ \E p \in 0..(Len(input) - 1) :
           RunStartsAt(input, p) /\ ~Reducible(input, p)

\* Candidate k (of the sorted candidates) is among the accepted spans.
Accepted(k) ==
    \E i \in 1..Len(filtered_matches) : filtered_matches[i] = all_matches[k]

\* C18: going through the candidates in order of start, a candidate is
\* accepted iff its interval intersects no span accepted before it; so the
\* accepted spans are candidates, and every discarded candidate intersects
\* an accepted span whose start is not greater than its own (no discarded
\* candidate could be added: the accepted set is maximal).
ResolverAcceptsMaximalSet ==
    Resolved =>
        /\ \A i \in 1..Len(filtered_matches) :
               \E k \in 1..Len(all_matches) : all_matches[k] = filtered_matches[i]
        /\ \A k \in 1..Len(all_matches) :
               /\ Accepted(k) <=>
                      \A j \in 1..(k - 1) :
                          Accepted(j) => Disjoint(all_matches[j], all_matches[k])
               /\ ~Accepted(k) =>
                      \E i \in 1..Len(filtered_matches) :
                          /\ ~Disjoint(filtered_matches[i], all_matches[k])
                          /\ filtered_matches[i].start <= all_matches[k].start

\* C18 witness: the resolver discarded a candidate and accepted a later one.
AcceptedAfterDiscarded ==
    /\ Resolved
    /\ \E k, l \in 1..Len(all_matches) : k < l /\ ~Accepted(k) /\ Accepted(l)

\* The scanner has run.
Scanned == pc \notin {"start", "scan"}

\* C19: every inline candidate, of the family $...$ or \(...\), lies in one
\* physical line (no line break between its start and its end), and the
\* content of every candidate of the family $...$ has no "$".
InlineCandidatesOnOneLine ==
    Scanned =>
        \A k \in 1..Len(all_matches) :
            all_matches[k].mtype = "inline" =>
                /\ \A p \in all_matches[k].start..(all_matches[k].end - 1) :
                       At(text, p) # "\n"
                /\ At(text, all_matches[k].start) = "$" =>
                       \A i \in 1..Len(all_matches[k].content) :
                           all_matches[k].content[i] # "$"

\* C19 witness: in a text of several lines the scanner collected a candidate
\* of each inline family and passed over a match of $...$ whose content has
\* a "$".
InlineCandidatesInSeveralLines ==
    /\ Scanned
    /\ \E p \in 0..(Len(text) - 1) : At(text, p) = "\n"
    /\ \E k \in 1..Len(all_matches) :
           all_matches[k].mtype = "inline" /\ At(text, all_matches[k].start) = "$"
    /\ \E k \in 1..Len(all_matches) :
           all_matches[k].mtype = "inline" /\ At(text, all_matches[k].start) = BS
    /\ \E p \in 0..(Len(text) - 1) :
           /\ MatchEndAt(3, text, p) >= 0
           /\ Contains(Group1(3, text, <<p, MatchEndAt(3, text, p)>>), <<"$">>)
           /\ \A k \in 1..Len(all_matches) : all_matches[k].start # p

\* No span was resolved: the function takes the path of lines 123-130.
NoSpanResolved == Resolved /\ filtered_matches = <<>>

\* C20: when no span is resolved the pipeline makes at most one render
\* call, a markup call with the whole text, trimmed and sanitized, made only
\* when the text has content (and, once the function has returned, whenever
\* the text and its cleaned form have content); the math primitive is never
\* called and no segment or block is built.
FallbackMakesOneMarkupCall ==
    NoSpanResolved =>
        /\ Len(calls) <= 1
        /\ \A k \in 1..Len(calls) :
               /\ calls[k].prim = "markdown"
               /\ calls[k].arg = clean_html_content(Strip(text))
        /\ calls # <<>> => HasVisibleChar(text)
        /\ pc = "done" =>
               (calls # <<>> <=>
                    HasVisibleChar(clean_html_content(Strip(text))))
        /\ result_parts = <<>> /\ text_blocks = <<>> /\ merged_blocks = <<>>

\* C20 witness: with no span resolved, a text with whitespace around it was
\* rendered by one markup call.
FallbackRenderedTrimmedText ==
    /\ NoSpanResolved
    /\ pc = "done"
    /\ Len(calls) = 1
    /\ calls[1].arg # text

\* s read from its last element to its first.
Reversed(s) == [k \in 1..Len(s) |-> s[Len(s) + 1 - k]]

\* C21: no two candidate spans, of one family or of two, have the same start
\* offset; so the sort by start has no tie: the candidates are in strictly
\* ascending order after it, and collected in the opposite order they sort to
\* the same list.
CandidateStartsAreDistinct ==
    /\ Scanned =>
           \A i, j \in 1..Len(all_matches) :
               i # j => all_matches[i].start # all_matches[j].start
    /\ pc = "resolve" =>
           SortByStart(Reversed(all_matches)) = SortByStart(all_matches)
    /\ Resolved =>
           \A i, j \in 1..Len(all_matches) :
               i < j => all_matches[i].start < all_matches[j].start

\* C21 witness: the scanner collected candidates of two families, the later
\* family's candidate starting before the earlier family's.
CandidatesCollectedOutOfOrder ==
    /\ pc = "resolve"
    /\ \E i, j \in 1..Len(all_matches) :
           /\ i < j
           /\ all_matches[j].start < all_matches[i].start
           /\ At(text, all_matches[i].start) # At(text, all_matches[j].start)

\* C22: the first merge pass never gives two consecutive text blocks (a
\* block formula lies between any two text blocks), so the second merge pass
\* returns its input unchanged and joins no two text blocks with "\n\n".
FirstPassLeavesNothingToMerge ==
    /\ pc \in {"merge2", "emit", "done"} =>
           \A b \in 1..(Len(text_blocks) - 1) :
               ~(text_blocks[b].type = "text" /\ text_blocks[b + 1].type = "text")
    /\ Merged => merged_blocks = text_blocks

\* C22 witness: the second merge pass ran on two text blocks or more, one of
\* them merged from several segments.
SecondPassRanOnTextBlocks ==
    /\ Merged
    /\ Cardinality({b \in 1..Len(text_blocks) : text_blocks[b].type = "text"}) >= 2
    /\ \E i, j \in 1..Len(result_parts) : IsRun(i, j) /\ i < j

\* A run of the OCR batch script has finished.
RunFinished == bpc = "idle" /\ runs > 0 /\ pictures_dir

\* The pages whose OCR result the current output file holds.
PagesInOutput == {output_file[k] : k \in 1..Len(output_file)}

\* C23: after any sequence of runs of the OCR batch script, runs with failed
\* OCR calls included, when a run finishes the current math_ocr_results.txt
\* holds the OCR result of every image listed in processed_images.txt.
OutputHoldsEveryRecordedImage ==
    RunFinished =>
        \A k \in 1..Len(record_file) : record_file[k] \in PagesInOutput

\* split_text has returned.
SplitReturned == spc = "done"

\* C24: every chunk split_text returns has a visible character and is at
\* most max_chunk_size characters long, the chunks of _split_long_chunk
\* included.
ReturnedChunksFitMaxSize ==
    SplitReturned =>
        \A k \in 1..Len(processed_chunks) :
            /\ Strip(processed_chunks[k]) # <<>>
            /\ Len(processed_chunks[k]) <= max_chunk_size

\* The texts the loop of embed_documents has dealt with.
TextsDone == IF batch_start < Len(texts) THEN batch_start ELSE Len(texts)

\* Entry k of es is the placeholder or the embedding of text k.
EntryBelongsToText(es, k) == es[k] \in {<<>>, Embedding(texts[k])}

\* The positions of the texts whose embedding was computed.
EmbeddedPositions == {k \in 1..Len(embeddings) : embeddings[k] # <<>>}

\* C25: embed_documents holds one entry per text it has dealt with, in input
\* order, whether the batches succeeded or failed, so the list it returns
\* has one entry per input text and entry i is the placeholder or the
\* embedding of text i; process_single_file keeps exactly the chunks with an
\* embedding, in order, each with its own embedding and its position in the
\* chunk list as chunk_id.
EachTextHasItsOwnEntry ==
    /\ epc = "embed" =>
           /\ Len(all_embeddings) = TextsDone
           /\ \A k \in 1..Len(all_embeddings) : EntryBelongsToText(all_embeddings, k)
    /\ epc \in {"filter", "done"} =>
           /\ Len(embeddings) = Len(texts)
           /\ \A k \in 1..Len(embeddings) : EntryBelongsToText(embeddings, k)
    /\ epc = "done" =>
           /\ {valid_data[j].chunk_id + 1 : j \in 1..Len(valid_data)}
                  = EmbeddedPositions
           /\ Len(valid_data) = Cardinality(EmbeddedPositions)
           /\ \A j \in 1..Len(valid_data) :
                  /\ valid_data[j].text = texts[valid_data[j].chunk_id + 1]
                  /\ valid_data[j].embedding = Embedding(valid_data[j].text)
           /\ \A j \in 1..(Len(valid_data) - 1) :
                  valid_data[j].chunk_id < valid_data[j + 1].chunk_id

\* A batch of two texts failed, the next batch succeeded, and the chunk kept
\* first is the third one.
ChunkKeptAfterFailedBatch ==
    /\ epc = "done"
    /\ batch_size = 2
    /\ Len(texts) = 4
    /\ texts[1] # texts[3]
    /\ embeddings[1] = <<>>
    /\ embeddings[2] = <<>>
    /\ embeddings[3] # <<>>
    /\ embeddings[4] # <<>>
    /\ valid_data[1].chunk_id = 2

====
